---- MODULE Spec2Model ----
(***************************************************************************)
(* Mission Poll Lifecycle of GOLDiscordBot_2: the /missionpoll creation    *)
(* command, the 30-minute poll monitor with _process_ended_poll, the       *)
(* /cancelpoll command and the manual /schedule command, over the          *)
(* mission_polls and events tables and the Discord channel.                *)
(*                                                                         *)
(* Every coroutine is cut at its await points: one action is the code      *)
(* between two awaits that touch shared state (the tables, the channel).   *)
(***************************************************************************)
EXTENDS Integers, Sequences, FiniteSets, TLC

\* ---------------------------------------------------------------- bounds
MaxPolls == 2       \* Poll rows in mission_polls when the bot starts
MaxEvents == 2      \* rows of the events table
MaxTime == 1        \* the clock runs 0..MaxTime
MaxRequests == 2    \* concurrent /missionpoll interactions
MaxVotes == 1       \* largest vote_count of one answer
MaxAnswers == 4     \* answers of a vote the draw is applied to on its own
MaxRows == 2        \* rows of the table the deduplication is applied to on its own
MaxName == 60       \* letters of a mission name after its optional "Operation"
MaxTags == 10       \* composition tags of one thread
MaxForumTags == 2   \* available_tags of the briefing forum
MaxTagClock == 3    \* steps of the clock the tag cache is watched for

\* ------------------------------------------------------------- constants
NULL == 0                         \* SQL NULL / Python None of an id column
MAX_POLL_ANSWER_LENGTH == 55
CacheTtl == 86400                 \* _cache_ttl, seconds
TagClockStep == 43200             \* one step of time.time(): 12 hours
Guild == 1                        \* interaction.guild.id of the commands
EventIds == 1..MaxEvents
MissingEvent == MaxEvents + 1     \* an id with no row in events
Requests == 1..MaxRequests
AllThreads == <<1, 2, 3, 4>>      \* forum threads, in fetch order
ThreadIds == {AllThreads[i] : i \in DOMAIN AllThreads}
MutValidDurations == {12, 13, 24, 36, 48, 60, 72}
ValidDurations == {12, 24, 36, 48, 60, 72}
DurationInputs == {13, 24}        \* durations a requester types
OptionInputs == {3}               \* app_commands.Range[int, 3, 10]
Terminal == {"completed", "failed"}

ThreadName(t) == <<"Alpha", "Bravo", "Charlie", "Delta">>[t]
AuthorName(t) == "Author"
Unassigned == [name |-> "", creator_name |-> ""]
ManualEvent == [name |-> "Manual", creator_name |-> "Admin"]
NoWrite == [poll |-> NULL, thread |-> NULL]

VARIABLES
    polls,      \* mission_polls: sequence of rows, id = index
    events,     \* events: id -> [name, creator_name]
    messages,   \* ids of the messages that exist in the channel
    now,        \* datetime.now(timezone.utc), in hours
    mon,        \* the _poll_monitor_loop task and its current _process_ended_poll
    cancel,     \* the /cancelpoll interaction
    req,        \* the /missionpoll interactions
    outbox,     \* the notifications the last step delivered: subset of {"dm", "log"}
    reply,      \* how the last step ended for its caller: the followup sent to the
                \* requester, or the exception that left the handler
    applied,    \* history: event -> the resolution whose update_event wrote it last
    call        \* a function of the code applied on its own: its arguments and result

vars == <<polls, events, messages, now, mon, cancel, req, outbox, reply, applied, call>>

\* ------------------------------------------------------------ repository
PollIds == DOMAIN polls

\* mission_poll_repository.get_active_polls: WHERE status = 'active'
GetActivePolls(ps) == {p \in DOMAIN ps : ps[p].status = "active"}

\* a lookup that filters on the wrong status
MutGetActivePollForEvent(ps, e) ==
    {p \in DOMAIN ps : ps[p].status = "completed" /\ ps[p].target_event_id = e}
\* mission_poll_repository.get_active_poll_for_event: the rows
\* WHERE target_event_id = $1 AND status = 'active'
GetActivePollForEvent(ps, e) ==
    {p \in DOMAIN ps : ps[p].status = "active" /\ ps[p].target_event_id = e}

\* mission_poll_repository.mark_failed: UPDATE ... SET status = 'failed' WHERE id = $1
MarkFailed(ps, p) == [ps EXCEPT ![p].status = "failed"]

\* a completion that keeps only the winner in the candidate list
MutMarkCompletedKeepsWinner(ps, p, w) ==
    [ps EXCEPT ![p].status = "completed", ![p].winning_thread_id = w,
               ![p].mission_thread_ids = <<w>>]

\* mission_poll_repository.mark_completed
MarkCompleted(ps, p, w) ==
    [ps EXCEPT ![p].status = "completed", ![p].winning_thread_id = w]

\* mission_poll_repository.create_poll: INSERT ... 'active' ... RETURNING id
CreatePoll(ps, e, ids, endTime, msg, links) ==
    Append(ps, [guild_id |-> Guild, target_event_id |-> e, status |-> "active",
                winning_thread_id |-> NULL, mission_thread_ids |-> ids,
                poll_end_time |-> endTime, poll_message_id |-> msg,
                links_message_id |-> links])

\* event_repository.update_event: UPDATE events SET ... WHERE id = $n
UpdateEvent(es, e, name, creator) ==
    [es EXCEPT ![e] = [name |-> name, creator_name |-> creator]]
\* its result: "UPDATE 1" exactly when the row exists
UpdateEventResult(es, e) == e \in DOMAIN es

\* ---------------------------------------------------------- notifications
DmOutcomes == {"ok", "forbidden", "error"}

\* send_dm_safe: what is delivered. A DM that fails is retried on the fallback
\* channel, when there is one; every failure is swallowed.
SendDmSafe(dm, fallback, fb) ==
    IF dm = "ok" THEN {"dm"}
    ELSE IF fallback /\ fb THEN {"log"} ELSE {}

\* send_dm_safe has no return statement: its value is None, which is falsy.
SendDmSafeResult(dm) == FALSE

\* dm_ok = False; if creator: dm_ok = await send_dm_safe(creator, ...,
\* fallback_channel=log_channel): what is delivered, and dm_ok, for every
\* creator lookup, DM outcome and fallback outcome
CreatorNotice(logch) ==
    {[notes |-> IF creator THEN SendDmSafe(dm, logch, fb) ELSE {},
      dm_ok |-> IF creator THEN SendDmSafeResult(dm) ELSE FALSE] :
        creator \in BOOLEAN, dm \in DmOutcomes, fb \in BOOLEAN}

\* ------------------------------------------------------------------ Init
\* the rows the table holds when the bot starts (the schema is created with
\* IF NOT EXISTS, the rows outlive the process): one active poll per event,
\* its vote message 2p - 1 and its links message 2p still in the channel
InitThreadList(p) == IF p % 2 = 1 THEN <<1, 2>> ELSE <<3, 1, 2>>
InitPollRows ==
    [p \in 1..MaxPolls |->
        [guild_id |-> Guild, target_event_id |-> p, status |-> "active",
         winning_thread_id |-> NULL,
         mission_thread_ids |-> InitThreadList(p),
         poll_end_time |-> (p - 1) % (MaxTime + 1),
         poll_message_id |-> 2 * p - 1, links_message_id |-> 2 * p]]

IdleMon == [pc |-> "idle", queue |-> <<>>, tickNow |-> NULL, due |-> {},
            cur |-> NULL, winner_idx |-> NULL, winning_thread_id |-> NULL]
IdleCancel == [pc |-> "idle", poll |-> NULL]
IdleReq == [pc |-> "idle", event |-> NULL, duration |-> NULL]
NoCall == [fn |-> "none"]
\* what the last step told its caller: the followup or exception kind and, for
\* /missionpoll, the locals of the command that the followups and DMs report
\* (remaining, options, excluded_from_poll, the poll answers, the links lines)
Told(k, rem, opts, sel, exc, ans, lnk) ==
    [kind |-> k, ncand |-> Len(rem), remaining |-> rem, options |-> opts,
     selected |-> sel, excluded |-> exc, answers |-> ans, links |-> lnk]
Reply(k) == Told(k, <<>>, 0, <<>>, <<>>, <<>>, <<>>)
NoReply == Reply("none")

Init ==
    /\ polls = InitPollRows
    /\ events = [e \in EventIds |-> Unassigned]
    /\ messages = 1..(2 * MaxPolls)
    /\ now = 0
    /\ mon = IdleMon
    /\ cancel = IdleCancel
    /\ req = [r \in Requests |-> IdleReq]
    /\ outbox = {}
    /\ reply = NoReply
    /\ applied = [e \in EventIds |-> NoWrite]
    /\ call = NoCall

\* ================================================================ monitor
\* return from _process_ended_poll to the for loop of the tick
Return(m) == [m EXCEPT !.pc = "loop", !.cur = NULL, !.winner_idx = NULL,
                       !.winning_thread_id = NULL]

\* an exception leaves _process_ended_poll and the for loop: the try of
\* _poll_monitor_loop encloses the loop, its except clause logs, the tick is over
Abort(m) == IdleMon

\* the ways a step of _process_ended_poll ends: at a return statement, with an
\* exception (of the database layer or of a Discord send), or at the next await
Returns == mon' = Return(mon) /\ reply' = NoReply
Raises(k) == mon' = Abort(mon) /\ reply' = Reply(k)
Goes(pc) == mon' = [mon EXCEPT !.pc = pc] /\ reply' = NoReply

\* ORDER BY poll_end_time: every order of the rows that is sorted by end time
RECURSIVE Perms(_)
Perms(S) ==
    IF S = {} THEN {<<>>}
    ELSE UNION {{<<x>> \o q : q \in Perms(S \ {x})} : x \in S}
OrderedByEndTime(ps, S) ==
    {q \in Perms(S) :
        \A i, j \in DOMAIN q :
            i < j => ps[q[i]].poll_end_time <= ps[q[j]].poll_end_time}

\* active_polls = await get_active_polls(); now = datetime.now(timezone.utc)
TickStart ==
    /\ mon.pc = "idle"
    /\ \E q \in OrderedByEndTime(polls, GetActivePolls(polls)) :
           mon' = [pc |-> "loop", queue |-> q, tickNow |-> now,
                   due |-> {p \in GetActivePolls(polls) :
                              polls[p].poll_end_time <= now},
                   cur |-> NULL, winner_idx |-> NULL, winning_thread_id |-> NULL]
    /\ outbox' = {} /\ reply' = NoReply
    /\ UNCHANGED <<polls, events, messages, now, cancel, req, applied, call>>

\* a test that lets a poll through one clock step before its end
MutNotEndedYetEarly(tickNow, poll_end) == tickNow + 1 < poll_end

\* line 504: now < poll_end
NotEndedYet(tickNow, poll_end) == tickNow < poll_end

\* if now < poll_end: continue
LoopSkip ==
    /\ mon.pc = "loop"
    /\ mon.queue # <<>>
    /\ NotEndedYet(mon.tickNow, polls[Head(mon.queue)].poll_end_time)
    /\ mon' = [mon EXCEPT !.queue = Tail(mon.queue)]
    /\ outbox' = {} /\ reply' = NoReply
    /\ UNCHANGED <<polls, events, messages, now, cancel, req, applied, call>>

\* await self._process_ended_poll(poll_data)
LoopBegin ==
    /\ mon.pc = "loop"
    /\ mon.queue # <<>>
    /\ ~NotEndedYet(mon.tickNow, polls[Head(mon.queue)].poll_end_time)
    /\ mon' = [mon EXCEPT !.pc = "fetch", !.cur = Head(mon.queue),
                          !.queue = Tail(mon.queue)]
    /\ outbox' = {} /\ reply' = NoReply
    /\ UNCHANGED <<polls, events, messages, now, cancel, req, applied, call>>

\* the for loop is exhausted
LoopEnd ==
    /\ mon.pc = "loop"
    /\ mon.queue = <<>>
    /\ mon' = IdleMon
    /\ outbox' = {} /\ reply' = NoReply
    /\ UNCHANGED <<polls, events, messages, now, cancel, req, applied, call>>

\* get_guild, get_channel, then channel.fetch_message(id): NotFound exactly
\* when the message is gone
FetchOutcomes(id) ==
    {"noguild", "nochannel"} \cup
    (IF id \in messages THEN {"ok", "error", "nopoll"} ELSE {"notfound"})

\* _process_ended_poll, lines 520-574: guild, creator, channel, vote message
ProcFetch ==
    /\ mon.pc = "fetch"
    /\ LET p == mon.cur IN
       \E fetch \in FetchOutcomes(polls[p].poll_message_id) :
         IF fetch = "ok"
         THEN /\ Goes("pick")
              /\ outbox' = {}
              /\ UNCHANGED polls
         ELSE \E db \in BOOLEAN :
              IF ~db
              THEN \* mark_failed raises: nothing written, nothing sent
                   /\ Raises("db_error")
                   /\ outbox' = {}
                   /\ UNCHANGED polls
              ELSE /\ polls' = MarkFailed(polls, p)
                   /\ IF fetch = "nochannel" THEN
                          \E logch \in BOOLEAN : \E n \in CreatorNotice(logch) :
                            Returns /\ outbox' = n.notes
                      ELSE IF fetch = "notfound" THEN
                          \E logch, ls \in BOOLEAN : \E n \in CreatorNotice(logch) :
                            IF ~n.dm_ok /\ logch
                            THEN IF ls
                                 THEN Returns
                                      /\ outbox' = n.notes \cup {"log"}
                                 ELSE Raises("send_error") /\ outbox' = n.notes
                            ELSE Returns /\ outbox' = n.notes
                      ELSE Returns /\ outbox' = {}
    /\ UNCHANGED <<events, messages, now, cancel, req, applied, call>>

\* ---------------------------------------------------------- winner choice
\* one answer of the vote per entry of mission_thread_ids (poll.add_answer in
\* the loop that also builds thread_data)
PollAnswers(row) == Len(row.mission_thread_ids)

Max(S) == CHOOSE x \in S : \A y \in S : y <= x

\* a draw that returns the first index holding the maximum
MutWinnerFirstMax(vote_counts, n) ==
    IF DOMAIN vote_counts = {} \/ \A i \in DOMAIN vote_counts : vote_counts[i] = 0
    THEN 0..(n - 1)
    ELSE {CHOOSE i \in DOMAIN vote_counts :
            /\ \A j \in DOMAIN vote_counts : vote_counts[j] <= vote_counts[i]
            /\ \A j \in DOMAIN vote_counts :
                  vote_counts[j] = vote_counts[i] => i <= j}

\* a draw without the zero-vote branch: max() of no tallies raises
MutWinnerNoZeroBranch(vote_counts, n) ==
    IF DOMAIN vote_counts = {} THEN {}
    ELSE LET max_votes == Max({vote_counts[i] : i \in DOMAIN vote_counts})
         IN {i \in DOMAIN vote_counts : vote_counts[i] = max_votes}

\* lines 581-594: the indices (from 0) the draw can return. vote_counts maps
\* answer index -> vote_count; n = len(thread_ids)
WinnerIndices(vote_counts, n) ==
    IF DOMAIN vote_counts = {} \/ \A i \in DOMAIN vote_counts : vote_counts[i] = 0
    THEN 0..(n - 1)                                  \* random.randint(0, n - 1)
    ELSE LET max_votes == Max({vote_counts[i] : i \in DOMAIN vote_counts})
         IN {i \in DOMAIN vote_counts : vote_counts[i] = max_votes}
                                                     \* random.choice(tied_indices)

\* the tallies the live vote can show
Tallies(row) == [0..(PollAnswers(row) - 1) -> 0..MaxVotes]

\* _get_briefing_channel_id / get_channel, then get_thread / fetch_channel
ThreadOutcomes == {"nobrief", "ok", "notfound", "error"}

\* an indexing that takes the entry after the drawn one
MutWinnerThreadNext(thread_ids, winner_idx) ==
    thread_ids[((winner_idx + 1) % Len(thread_ids)) + 1]

\* line 601: winning_thread_id = thread_ids[winner_idx] (Python counts from 0)
WinnerThread(thread_ids, winner_idx) == thread_ids[winner_idx + 1]

\* _process_ended_poll, lines 576-638: tally, draw, fetch the winning thread
ProcPick ==
    /\ mon.pc = "pick"
    /\ LET p == mon.cur
           thread_ids == polls[p].mission_thread_ids IN
       \E winner_idx \in UNION {WinnerIndices(v, Len(thread_ids)) :
                                  v \in Tallies(polls[p])} :
       \E th \in ThreadOutcomes, db \in BOOLEAN :
         IF winner_idx >= Len(thread_ids) THEN
              IF db THEN polls' = MarkFailed(polls, p) /\ Returns
                         /\ outbox' = {}
              ELSE UNCHANGED polls /\ Raises("db_error") /\ outbox' = {}
         ELSE IF th = "notfound" THEN
              \* the notice comes before mark_failed
              \E logch, ls \in BOOLEAN : \E n \in CreatorNotice(logch) :
                IF ~n.dm_ok /\ logch /\ ~ls
                THEN UNCHANGED polls /\ Raises("send_error") /\ outbox' = n.notes
                ELSE /\ outbox' = n.notes \cup
                          (IF ~n.dm_ok /\ logch THEN {"log"} ELSE {})
                     /\ IF db
                        THEN polls' = MarkFailed(polls, p) /\ Returns
                        ELSE UNCHANGED polls /\ Raises("db_error")
         ELSE IF th \in {"nobrief", "error"} THEN
              IF db THEN polls' = MarkFailed(polls, p) /\ Returns
                         /\ outbox' = {}
              ELSE UNCHANGED polls /\ Raises("db_error") /\ outbox' = {}
         ELSE /\ mon' = [mon EXCEPT !.pc = "event", !.winner_idx = winner_idx,
                            !.winning_thread_id =
                                WinnerThread(thread_ids, winner_idx)]
              /\ reply' = NoReply
              /\ outbox' = {}
              /\ UNCHANGED polls
    /\ UNCHANGED <<events, messages, now, cancel, req, applied, call>>

\* _process_ended_poll, lines 640-662: read the target event, and complete
\* without applying when it is assigned already
ProcEvent ==
    /\ mon.pc = "event"
    /\ LET p == mon.cur
           e == polls[p].target_event_id IN
       IF e \notin DOMAIN events THEN
            \E db \in BOOLEAN :
              IF db THEN polls' = MarkFailed(polls, p) /\ Returns
                         /\ outbox' = {}
              ELSE UNCHANGED polls /\ Raises("db_error") /\ outbox' = {}
       ELSE IF events[e].name # "" THEN
            \* await log_channel.send(...) comes before mark_completed
            \E logch, ls, db \in BOOLEAN :
              IF logch /\ ~ls
              THEN UNCHANGED polls /\ Raises("send_error") /\ outbox' = {}
              ELSE /\ outbox' = (IF logch THEN {"log"} ELSE {})
                   /\ IF db
                      THEN polls' = MarkCompleted(polls, p, mon.winning_thread_id)
                           /\ Returns
                      ELSE UNCHANGED polls /\ Raises("db_error")
       ELSE /\ Goes("write")
            /\ outbox' = {}
            /\ UNCHANGED polls
    /\ UNCHANGED <<events, messages, now, cancel, req, applied, call>>

\* _process_ended_poll, lines 664-671 and 754-761: update_event
ProcWrite ==
    /\ mon.pc = "write"
    /\ LET p == mon.cur
           e == polls[p].target_event_id
           t == mon.winning_thread_id IN
       \E db \in BOOLEAN :
         IF ~db THEN
              /\ Raises("db_error") /\ outbox' = {}
              /\ UNCHANGED <<polls, events, applied>>
         ELSE IF UpdateEventResult(events, e) THEN
              /\ events' = UpdateEvent(events, e, ThreadName(t), AuthorName(t))
              /\ applied' = [applied EXCEPT ![e] = [poll |-> p, thread |-> t]]
              /\ Goes("complete")
              /\ outbox' = {}
              /\ UNCHANGED polls
         ELSE /\ UNCHANGED <<events, applied>>
              /\ \E logch, ls, db2 \in BOOLEAN :
                   IF ~db2
                   THEN UNCHANGED polls /\ Raises("db_error") /\ outbox' = {}
                   ELSE /\ polls' = MarkFailed(polls, p)
                        /\ IF logch /\ ~ls
                           THEN Raises("send_error") /\ outbox' = {}
                           ELSE Returns
                                /\ outbox' = (IF logch THEN {"log"} ELSE {})
    /\ UNCHANGED <<messages, now, cancel, req, call>>

\* _process_ended_poll, lines 673-753: mark_completed, then the cleanup and the
\* announcement, each in its own try/except
ProcComplete ==
    /\ mon.pc = "complete"
    /\ LET p == mon.cur IN
       \E db \in BOOLEAN :
         IF ~db THEN
              /\ Raises("db_error") /\ outbox' = {}
              /\ UNCHANGED <<polls, messages>>
         ELSE \E del1, del2, logch, ls \in BOOLEAN : \E n \in CreatorNotice(logch) :
              /\ polls' = MarkCompleted(polls, p, mon.winning_thread_id)
              /\ messages' = messages \
                     ((IF del1 THEN {polls[p].poll_message_id} ELSE {}) \cup
                      (IF del2 THEN {polls[p].links_message_id} ELSE {}))
              /\ outbox' = n.notes \cup
                     (IF ~n.dm_ok /\ logch /\ ls THEN {"log"} ELSE {})
              /\ Returns
    /\ UNCHANGED <<events, now, cancel, req, applied, call>>

\* ============================================================ /cancelpoll
\* cancelpoll_command, lines 60-68: look the poll up among the active ones
CancelRead ==
    /\ cancel.pc = "idle"
    /\ \E p \in PollIds :
         IF p \in GetActivePolls(polls)
         THEN cancel' = [pc |-> "delete", poll |-> p] /\ reply' = NoReply
         ELSE cancel' = IdleCancel /\ reply' = Reply("cancel_notfound")
    /\ outbox' = {}
    /\ UNCHANGED <<polls, events, messages, now, mon, req, applied, call>>

\* lines 70-84: delete the vote message and the links message; NotFound is
\* passed over, any other failure is logged
CancelDelete ==
    /\ cancel.pc = "delete"
    /\ \E channel \in BOOLEAN :
         IF channel
         THEN \E del1, del2 \in BOOLEAN :
                messages' = messages \
                    ((IF del1 THEN {polls[cancel.poll].poll_message_id} ELSE {}) \cup
                     (IF del2 THEN {polls[cancel.poll].links_message_id} ELSE {}))
         ELSE messages' = messages
    /\ cancel' = [cancel EXCEPT !.pc = "mark"]
    /\ outbox' = {} /\ reply' = NoReply
    /\ UNCHANGED <<polls, events, now, mon, req, applied, call>>

\* lines 86-109: mark_failed, then the confirmation
CancelMark ==
    /\ cancel.pc = "mark"
    /\ \E db \in BOOLEAN :
         IF db
         THEN polls' = MarkFailed(polls, cancel.poll) /\ reply' = Reply("cancelled")
         ELSE UNCHANGED polls /\ reply' = Reply("db_error")
    /\ cancel' = IdleCancel
    /\ outbox' = {}
    /\ UNCHANGED <<events, messages, now, mon, req, applied, call>>

\* ============================================================== /schedule
\* schedule_command, lines 66-76: update_event with the name the admin gives
ManualSchedule(e) ==
    /\ events[e] # ManualEvent
    /\ events' = UpdateEvent(events, e, ManualEvent.name, ManualEvent.creator_name)
    /\ applied' = [applied EXCEPT ![e] = NoWrite]
    /\ outbox' = {} /\ reply' = NoReply
    /\ UNCHANGED <<polls, messages, now, mon, cancel, req, call>>

\* the clock
Advance ==
    /\ now < MaxTime
    /\ now' = now + 1
    /\ outbox' = {} /\ reply' = NoReply
    /\ UNCHANGED <<polls, events, messages, mon, cancel, req, applied, call>>

\* =========================================================== /missionpoll
\* today - event_date, in days, of each event row
EventDaysAgo(e) == <<10, 20, 14, -7>>[((e - 1) % 4) + 1]
DedupWindowDays == 14             \* timedelta(weeks=2)

\* mission_poll_repository.get_recent_winners: WHERE guild_id = $1 AND
\* status = 'completed' AND winning_thread_id IS NOT NULL
GetRecentWinners(ps, guild_id) ==
    {p \in DOMAIN ps :
        /\ ps[p].guild_id = guild_id
        /\ ps[p].status = "completed"
        /\ ps[p].winning_thread_id # NULL}

\* a window that takes in the last day: today - event_date <= timedelta(weeks=2)
MutGetExcludedInclusive(ps, guild_id) ==
    {ps[p].winning_thread_id : p \in
        {q \in GetRecentWinners(ps, guild_id) :
            EventDaysAgo(ps[q].target_event_id) <= DedupWindowDays}}

\* mission_poll_service.get_excluded_thread_ids(guild_id)
GetExcludedThreadIds(ps, guild_id) ==
    {ps[p].winning_thread_id : p \in
        {q \in GetRecentWinners(ps, guild_id) :
            EventDaysAgo(ps[q].target_event_id) < DedupWindowDays}}

\* the parameters get_excluded_thread_ids declares, and the arguments line 229
\* passes: get_excluded_thread_ids(guild.id, filtered)
GetExcludedParams == 1
GetExcludedArgs == 2
\* a call whose arguments fit the parameters
MutCallAccepted == FALSE
\* Python raises TypeError on a call whose positional arguments outnumber the
\* parameters
GetExcludedCallRaises == GetExcludedArgs > GetExcludedParams

\* the sets of threads the tag filter matches: the first k threads, every k
MatchSets == {{AllThreads[i] : i \in 1..k} : k \in 0..Len(AllThreads)}

\* filter_threads_by_tags keeps the input order: the threads of S, in fetch order
Filtered(S) == SelectSeq(AllThreads, LAMBDA t : t \in S)

\* lines 293-297: random.shuffle(remaining) when there are more candidates than
\* options (every arrangement is possible), the list as it is otherwise
Shuffles(remaining, options) ==
    IF Len(remaining) > options
    THEN Perms({remaining[i] : i \in DOMAIN remaining})
    ELSE {remaining}

\* selected = remaining[:options]; remaining = selected
Selected(shuffled, options) ==
    IF Len(shuffled) > options THEN SubSeq(shuffled, 1, options) ELSE shuffled

\* excluded_from_poll = remaining[options:]
ExcludedFromPoll(shuffled, options) ==
    IF Len(shuffled) > options
    THEN SubSeq(shuffled, options + 1, Len(shuffled))
    ELSE <<>>

\* lines 336-340: one (thread, answer_text, comp_tags) per selected thread and,
\* in the same iteration, one poll.add_answer
ThreadData(selected) ==
    [i \in DOMAIN selected |-> [thread |-> selected[i],
                                answer_text |-> ThreadName(selected[i])]]

\* the thread each answer of the Discord poll was built from, in answer order
PollAnswerThreads(thread_data) ==
    [i \in DOMAIN thread_data |-> thread_data[i].thread]

\* lines 364-366: one link line per entry of thread_data, in its order
LinksLines(thread_data) ==
    [i \in DOMAIN thread_data |-> thread_data[i].thread]

\* line 382: mission_thread_ids = [t.id for t, _, _ in thread_data]
MissionThreadIds(thread_data) ==
    [i \in DOMAIN thread_data |-> thread_data[i].thread]

\* a message id no message has had
FreshMessage ==
    Max(messages \cup {polls[p].poll_message_id : p \in PollIds}
                 \cup {polls[p].links_message_id : p \in PollIds} \cup {0}) + 1

\* missionpoll_command, lines 175-200: duration, event lookup, event unassigned
CreateValidate(r) ==
    /\ req[r].pc = "idle"
    /\ \E d \in DurationInputs :
         IF d \notin ValidDurations
         THEN reply' = Reply("rejected_duration") /\ UNCHANGED req
         ELSE \E e \in EventIds \cup {MissingEvent} :
              IF e \notin DOMAIN events
              THEN reply' = Reply("rejected_missing") /\ UNCHANGED req
              ELSE IF events[e].name # ""
              THEN reply' = Reply("rejected_assigned") /\ UNCHANGED req
              ELSE /\ reply' = NoReply
                   /\ req' = [req EXCEPT ![r] =
                                [pc |-> "check", event |-> e, duration |-> d]]
    /\ outbox' = {}
    /\ UNCHANGED <<polls, events, messages, now, mon, cancel, applied, call>>

\* lines 202-210: get_active_poll_for_event
CreateCheckActive(r) ==
    /\ req[r].pc = "check"
    /\ IF GetActivePollForEvent(polls, req[r].event) # {}
       THEN reply' = Reply("rejected_active") /\ req' = [req EXCEPT ![r] = IdleReq]
       ELSE reply' = NoReply /\ req' = [req EXCEPT ![r].pc = "discover"]
    /\ outbox' = {}
    /\ UNCHANGED <<polls, events, messages, now, mon, cancel, applied, call>>

\* lines 212-406: briefing channel, discovery, deduplication, selection, the
\* vote message, the links message, create_poll
CreateDiscover(r) ==
    /\ req[r].pc = "discover"
    /\ req' = [req EXCEPT ![r] = IdleReq]
    /\ \E brief \in BOOLEAN :
         IF ~brief THEN
              /\ reply' = Reply("rejected_no_channel")
              /\ outbox' = {}
              /\ UNCHANGED <<polls, messages>>
         ELSE \E S \in MatchSets, options \in OptionInputs :
           LET filtered == Filtered(S)
               excluded_ids == GetExcludedThreadIds(polls, Guild)
               remaining == SelectSeq(filtered, LAMBDA t : t \notin excluded_ids)
               early(k) == Told(k, remaining, options, <<>>, <<>>, <<>>, <<>>)
           IN
           IF GetExcludedCallRaises THEN
                \* line 229 raises TypeError out of the command
                /\ reply' = early("type_error")
                /\ outbox' = {}
                /\ UNCHANGED <<polls, messages>>
           ELSE IF Len(remaining) < 2 THEN
                /\ reply' = early("failed_candidates")
                /\ outbox' = {"dm"}
                /\ UNCHANGED <<polls, messages>>
           ELSE \E sendOk, linksOk, db \in BOOLEAN :
                \E shuffled \in Shuffles(remaining, options) :
                LET selected == Selected(shuffled, options)
                    excluded_from_poll == ExcludedFromPoll(shuffled, options)
                    thread_data == ThreadData(selected)
                    answers == PollAnswerThreads(thread_data)
                    links_lines == LinksLines(thread_data)
                    mission_thread_ids == MissionThreadIds(thread_data)
                    told(k) == Told(k, remaining, options, selected,
                                    excluded_from_poll, answers, links_lines)
                IN
                IF ~sendOk THEN
                     /\ reply' = told("failed_send")
                     /\ outbox' = {}
                     /\ UNCHANGED <<polls, messages>>
                ELSE LET msg == FreshMessage
                         links == IF linksOk THEN FreshMessage + 1 ELSE NULL
                     IN /\ messages' = messages \cup {msg} \cup
                                          (IF linksOk THEN {links} ELSE {})
                        /\ outbox' = {}
                        /\ IF db
                           THEN /\ polls' = CreatePoll(polls, req[r].event,
                                                mission_thread_ids,
                                                now + req[r].duration, msg, links)
                                /\ reply' = told("created")
                           ELSE /\ UNCHANGED polls
                                /\ reply' = told("failed_persist")
    /\ UNCHANGED <<events, now, mon, cancel, applied, call>>

\* ================================================================== Spec
\* the resolution side: the monitor, /cancelpoll, /schedule and the clock
Next ==
    \/ TickStart
    \/ LoopSkip
    \/ LoopBegin
    \/ LoopEnd
    \/ ProcFetch
    \/ ProcPick
    \/ ProcEvent
    \/ ProcWrite
    \/ ProcComplete
    \/ CancelRead
    \/ CancelDelete
    \/ CancelMark
    \/ \E e \in EventIds : ManualSchedule(e)
    \/ Advance

Spec == Init /\ [][Next]_vars

\* the creation side: concurrent /missionpoll requests and /cancelpoll
NextCreate ==
    \/ \E r \in Requests : CreateValidate(r)
    \/ \E r \in Requests : CreateCheckActive(r)
    \/ \E r \in Requests : CreateDiscover(r)
    \/ CancelRead
    \/ CancelDelete
    \/ CancelMark

SpecCreate == Init /\ [][NextCreate]_vars

\* one /missionpoll request at a time, with /cancelpoll and /schedule
NextValidate ==
    \/ CreateValidate(1)
    \/ CreateCheckActive(1)
    \/ CreateDiscover(1)
    \/ CancelRead
    \/ CancelDelete
    \/ CancelMark
    \/ \E e \in EventIds : ManualSchedule(e)

SpecValidate == Init /\ [][NextValidate]_vars

\* ------------------------------------------------- the draw, on its own
\* the tallies and lists the draw is applied to: a list of n stored ids and a
\* live vote of m answers, m = n as creation builds it, and also no answers,
\* fewer answers and more answers than stored ids, which lines 596-599 provide
\* for
TallyValues == {0, 2, 3, 7}
DrawThreadIds(n) == [i \in 1..n |-> 100 + i]
DrawInputs ==
    {[fn |-> "draw", vote_counts |-> v, n |-> n, thread_ids |-> DrawThreadIds(n),
      done |-> FALSE, winner_idx |-> 0, outcome |-> "none",
      winning_thread_id |-> NULL] :
        n \in 2..MaxAnswers,
        v \in UNION {[0..(m - 1) -> TallyValues] : m \in 0..MaxAnswers}}

InitDraw ==
    /\ polls = InitPollRows
    /\ events = [e \in EventIds |-> Unassigned]
    /\ messages = 1..(2 * MaxPolls)
    /\ now = 0
    /\ mon = IdleMon
    /\ cancel = IdleCancel
    /\ req = [r \in Requests |-> IdleReq]
    /\ outbox = {}
    /\ reply = NoReply
    /\ applied = [e \in EventIds |-> NoWrite]
    /\ call \in DrawInputs

\* a range test that lets every index through
MutDrawOutcomeNoRangeTest(winner_idx, n) == "winner"

\* lines 596-599: if winner_idx >= len(thread_ids): mark_failed
DrawOutcome(winner_idx, n) == IF winner_idx >= n THEN "failed" ELSE "winner"

\* lines 596-601: the range test, then thread_ids[winner_idx], which raises
\* IndexError past the end of the list
PickWinner(thread_ids, winner_idx) ==
    IF DrawOutcome(winner_idx, Len(thread_ids)) = "failed"
    THEN [outcome |-> "failed", winning_thread_id |-> NULL]
    ELSE IF winner_idx + 1 \in DOMAIN thread_ids
    THEN [outcome |-> "winner",
          winning_thread_id |-> WinnerThread(thread_ids, winner_idx)]
    ELSE [outcome |-> "index_error", winning_thread_id |-> NULL]

\* _process_ended_poll, lines 576-601, applied to one tally
Draw ==
    /\ call.fn = "draw"
    /\ ~call.done
    /\ \E winner_idx \in WinnerIndices(call.vote_counts, call.n) :
         LET w == PickWinner(call.thread_ids, winner_idx)
         IN call' = [call EXCEPT !.done = TRUE, !.winner_idx = winner_idx,
                                 !.outcome = w.outcome,
                                 !.winning_thread_id = w.winning_thread_id]
    /\ UNCHANGED <<polls, events, messages, now, mon, cancel, req, outbox, reply,
                   applied>>

SpecDraw == InitDraw /\ [][Draw]_vars


\* ------------------------------------- the deduplication, on its own
\* the rows of mission_polls (joined with events) the query can meet: any
\* guild, any of four event dates, any status, with or without a winner
DedupRow ==
    [guild_id : {Guild, Guild + 1}, target_event_id : 1..4,
     status : {"active", "completed"}, winning_thread_id : {NULL, 1, 2}]
DedupTables == UNION {[1..k -> DedupRow] : k \in 0..MaxRows}

InitDedup ==
    /\ polls = InitPollRows
    /\ events = [e \in EventIds |-> Unassigned]
    /\ messages = 1..(2 * MaxPolls)
    /\ now = 0
    /\ mon = IdleMon
    /\ cancel = IdleCancel
    /\ req = [r \in Requests |-> IdleReq]
    /\ outbox = {}
    /\ reply = NoReply
    /\ applied = [e \in EventIds |-> NoWrite]
    /\ call \in {[fn |-> "excluded", rows |-> t, done |-> FALSE, result |-> {}] :
                    t \in DedupTables}

\* excluded = await get_excluded_thread_ids(guild.id), its body run to the end
Excluded ==
    /\ call.fn = "excluded"
    /\ ~call.done
    /\ call' = [call EXCEPT !.done = TRUE,
                            !.result = GetExcludedThreadIds(call.rows, Guild)]
    /\ UNCHANGED <<polls, events, messages, now, mon, cancel, req, outbox, reply,
                   applied>>

SpecDedup == InitDedup /\ [][Excluded]_vars

\* ------------------------------------- format_poll_answer, on its own
\* a string is the sequence of its characters
Uppers == <<"A", "B", "C", "D", "E", "F", "G", "H", "I", "J", "K", "L", "M", "N", "O", "P", "Q", "R", "S", "T", "U", "V", "W", "X", "Y", "Z">>
Digits == <<"0", "1", "2", "3", "4", "5", "6", "7", "8", "9">>
Lowers == <<"a", "b", "c", "d", "e", "f", "g", "h", "i", "j", "k", "l", "m", "n", "o", "p", "q", "r", "s", "t", "u", "v", "w", "x", "y", "z">>
Pos(c, alphabet) == CHOOSE i \in DOMAIN alphabet : alphabet[i] = c
\* str.lower() and str.upper(), character by character
LowerChar(c) == IF c \in {Uppers[i] : i \in DOMAIN Uppers}
                THEN Lowers[Pos(c, Uppers)] ELSE c
UpperChar(c) == IF c \in {Lowers[i] : i \in DOMAIN Lowers}
                THEN Uppers[Pos(c, Lowers)] ELSE c
Lower(s) == [i \in DOMAIN s |-> LowerChar(s[i])]
Upper(s) == [i \in DOMAIN s |-> UpperChar(s[i])]
\* \w of the regular expressions
WordChar(c) == LowerChar(c) \in {Lowers[i] : i \in DOMAIN Lowers}
\* s[:k] for k >= 0
Prefix(s, k) == SubSeq(s, 1, IF k < Len(s) THEN k ELSE Len(s))
\* the one character U+2026
Ellipsis == "..."

OperationWord == <<"O", "p", "e", "r", "a", "t", "i", "o", "n">>
\* re.sub(r'\bOperation\b', 'Op', s, flags=re.IGNORECASE), scanning from i
RECURSIVE SubOperationFrom(_, _)
SubOperationFrom(s, i) ==
    IF i > Len(s) THEN <<>>
    ELSE IF /\ i + Len(OperationWord) - 1 <= Len(s)
            /\ Lower(SubSeq(s, i, i + Len(OperationWord) - 1)) = Lower(OperationWord)
            /\ (i = 1 \/ ~WordChar(s[i - 1]))
            /\ (i + Len(OperationWord) > Len(s)
                  \/ ~WordChar(s[i + Len(OperationWord)]))
         THEN <<"O", "p">> \o SubOperationFrom(s, i + Len(OperationWord))
         ELSE <<s[i]>> \o SubOperationFrom(s, i + 1)
SubOperation(s) == SubOperationFrom(s, 1)

\* COMPOSITION_ABBREVIATIONS
CompositionKeys ==
    {<<"i", "n", "f", "a", "n", "t", "r", "y">>,
     <<"m", "o", "t", "o", "r", "i", "s", "e", "d">>,
     <<"m", "e", "c", "h", "a", "n", "i", "z", "e", "d">>,
     <<"a", "i", "r", " ", "a", "s", "s", "a", "u", "l", "t">>,
     <<"a", "m", "p", "h", "i", "b", "i", "o", "u", "s">>,
     <<"a", "r", "m", "o", "r", "e", "d">>,
     <<"b", "a", "t", "t", "l", "e", "b", "u", "s">>,
     <<"s", "p", "e", "c", "i", "a", "l", " ", "f", "o", "r", "c", "e", "s">>}
CompositionAbbreviations(k) ==
    IF k = <<"i", "n", "f", "a", "n", "t", "r", "y">>
        THEN <<"I", "N", "F">>
    ELSE IF k = <<"m", "o", "t", "o", "r", "i", "s", "e", "d">>
        THEN <<"M", "O", "T", "O">>
    ELSE IF k = <<"m", "e", "c", "h", "a", "n", "i", "z", "e", "d">>
        THEN <<"M", "E", "C", "H">>
    ELSE IF k = <<"a", "i", "r", " ", "a", "s", "s", "a", "u", "l", "t">>
        THEN <<"A", "I", "R">>
    ELSE IF k = <<"a", "m", "p", "h", "i", "b", "i", "o", "u", "s">>
        THEN <<"A", "M", "P", "H">>
    ELSE IF k = <<"a", "r", "m", "o", "r", "e", "d">>
        THEN <<"A", "R", "M">>
    ELSE IF k = <<"b", "a", "t", "t", "l", "e", "b", "u", "s">>
        THEN <<"B", "B">>
    ELSE IF k = <<"s", "p", "e", "c", "i", "a", "l", " ", "f", "o", "r", "c", "e", "s">>
        THEN <<"S", "F">>
    ELSE <<>>

\* "".join(f"[{t}]" for t in tags)
RECURSIVE TagStr(_)
TagStr(tags) ==
    IF tags = <<>> THEN <<>>
    ELSE <<"[">> \o Head(tags) \o <<"]">> \o TagStr(Tail(tags))

\* lines 78-81: COMPOSITION_ABBREVIATIONS.get(t.lower(), t[:4].upper())
AbbrevTag(t) ==
    IF Lower(t) \in CompositionKeys
    THEN CompositionAbbreviations(Lower(t))
    ELSE Upper(Prefix(t, 4))

\* f"{name} {tag_str}" if tag_str else name
WithTags(name, tag_str) ==
    IF tag_str # <<>> THEN name \o <<" ">> \o tag_str ELSE name

\* a truncation that cuts the name and appends nothing
MutTruncatedNamePlain(short_name, tag_str_abbrev) ==
    LET m == MAX_POLL_ANSWER_LENGTH - Len(tag_str_abbrev) - 2
        max_name_len == IF m < 5 THEN 5 ELSE m
    IN Prefix(short_name, max_name_len)

\* lines 88-91: the name cut to the room the abbreviated tags leave, then the
\* ellipsis
TruncatedName(short_name, tag_str_abbrev) ==
    LET m == MAX_POLL_ANSWER_LENGTH - Len(tag_str_abbrev) - 2
        max_name_len == IF m < 5 THEN 5 ELSE m
    IN Prefix(short_name, max_name_len - 1) \o <<Ellipsis>>

\* a last step that returns the answer as it is
MutHardCutNone(answer) == answer

\* line 93: answer[:MAX_POLL_ANSWER_LENGTH]
HardCut(answer) == Prefix(answer, MAX_POLL_ANSWER_LENGTH)

\* format_poll_answer: the attempt (1..4) that produced the answer, and the answer
FormatPollAnswerAttempt(mission_name, composition_tags) ==
    LET tag_str == TagStr(composition_tags)
        short_name == SubOperation(mission_name)
        tag_str_abbrev ==
            TagStr([i \in DOMAIN composition_tags |-> AbbrevTag(composition_tags[i])])
        a1 == WithTags(mission_name, tag_str)
        a2 == WithTags(short_name, tag_str)
        a3 == WithTags(short_name, tag_str_abbrev)
        a4 == WithTags(TruncatedName(short_name, tag_str_abbrev), tag_str_abbrev)
    IN IF Len(a1) <= MAX_POLL_ANSWER_LENGTH THEN [attempt |-> 1, answer |-> a1]
       ELSE IF Len(a2) <= MAX_POLL_ANSWER_LENGTH THEN [attempt |-> 2, answer |-> a2]
       ELSE IF Len(a3) <= MAX_POLL_ANSWER_LENGTH THEN [attempt |-> 3, answer |-> a3]
       ELSE [attempt |-> 4, answer |-> HardCut(a4)]
FormatPollAnswer(mission_name, composition_tags) ==
    FormatPollAnswerAttempt(mission_name, composition_tags).answer

\* the names and tag lists the function is applied to: an optional leading
\* "Operation" (either case, as a word or run into the next letters) followed
\* by up to MaxName letters, and up to MaxTags tags taken in turn from
\* TagCycle
NamePrefixes ==
    {<<>>, <<"O", "p", "e", "r", "a", "t", "i", "o", "n", " ">>, <<"o", "p", "e", "r", "a", "t", "i", "o", "n", " ">>, <<"O", "p", "e", "r", "a", "t", "i", "o", "n">>}
TagCycle == <<<<"I", "n", "f", "a", "n", "t", "r", "y">>, <<"S", "p", "e", "c", "i", "a", "l", " ", "F", "o", "r", "c", "e", "s">>, <<"R", "e", "c", "o", "n">>, <<"M", "e", "c", "h", "a", "n", "i", "z", "e", "d">>>>
NameInputs ==
    {pre \o [i \in 1..k |-> "x"] : pre \in NamePrefixes, k \in 0..MaxName}
TagListInputs ==
    {[i \in 1..k |-> TagCycle[((i + o) % Len(TagCycle)) + 1]] :
        k \in 0..MaxTags, o \in 0..(Len(TagCycle) - 1)}

InitFormat ==
    /\ polls = InitPollRows
    /\ events = [e \in EventIds |-> Unassigned]
    /\ messages = 1..(2 * MaxPolls)
    /\ now = 0
    /\ mon = IdleMon
    /\ cancel = IdleCancel
    /\ req = [r \in Requests |-> IdleReq]
    /\ outbox = {}
    /\ reply = NoReply
    /\ applied = [e \in EventIds |-> NoWrite]
    /\ call \in {[fn |-> "format", mission_name |-> n, composition_tags |-> t,
                  done |-> FALSE, attempt |-> 0, answer |-> <<>>] :
                    n \in NameInputs, t \in TagListInputs}

\* answer_text = format_poll_answer(thread.name, comp_tags)
Format ==
    /\ call.fn = "format"
    /\ ~call.done
    /\ LET r == FormatPollAnswerAttempt(call.mission_name, call.composition_tags)
       IN call' = [call EXCEPT !.done = TRUE, !.attempt = r.attempt,
                               !.answer = r.answer]
    /\ UNCHANGED <<polls, events, messages, now, mon, cancel, req, outbox, reply,
                   applied>>

SpecFormat == InitFormat /\ [][Format]_vars

\* --------------------------------------------- the tag cache, on its own
\* the characters in code point order (str comparison of list.sort)
CodeOrder == <<" ", ".">> \o Digits \o Uppers \o Lowers
RECURSIVE StrLess(_, _)
StrLess(a, b) ==
    IF a = <<>> THEN b # <<>>
    ELSE IF b = <<>> THEN FALSE
    ELSE IF Head(a) = Head(b) THEN StrLess(Tail(a), Tail(b))
    ELSE Pos(Head(a), CodeOrder) < Pos(Head(b), CodeOrder)

\* str.strip()
RECURSIVE Strip(_)
Strip(s) ==
    IF s = <<>> THEN s
    ELSE IF Head(s) = " " THEN Strip(Tail(s))
    ELSE IF s[Len(s)] = " " THEN Strip(SubSeq(s, 1, Len(s) - 1))
    ELSE s

\* the length of the longest prefix of s made of characters of C
RECURSIVE Run(_, _)
Run(s, C) == IF s # <<>> /\ Head(s) \in C THEN 1 + Run(Tail(s), C) ELSE 0
Drop(s, k) == SubSeq(s, k + 1, Len(s))
DigitChars == {Digits[i] : i \in DOMAIN Digits}

\* FRAMEWORK_TAG_PATTERN.match: ^Framework\s+\d+\.\d+$, ignoring case
FrameworkTagPattern(s) ==
    LET word == <<"f", "r", "a", "m", "e", "w", "o", "r", "k">>
        a == Drop(s, Len(word))
        b == Drop(a, Run(a, {" "}))
        c == Drop(b, Run(b, DigitChars))
        d == Drop(c, 1)
    IN /\ Len(s) >= Len(word)
       /\ Lower(SubSeq(s, 1, Len(word))) = word
       /\ Run(a, {" "}) >= 1
       /\ Run(b, DigitChars) >= 1
       /\ c # <<>> /\ Head(c) = "."
       /\ Run(d, DigitChars) >= 1
       /\ Run(d, DigitChars) = Len(d)

\* a categorisation that replaces the framework list and keeps the old
\* composition list
MutCategorizeFrameworkOnly(cache, tags) ==
    LET names == [i \in DOMAIN tags |-> Strip(tags[i])]
    IN [cache EXCEPT
          !.framework_tags = SortSeq(SelectSeq(names, FrameworkTagPattern), StrLess),
          !.all_tags = tags]

\* _categorize_tags: both lists emptied, all_tags replaced, every tag appended
\* to its list, both lists sorted; no await in between
CategorizeTags(cache, tags) ==
    LET names == [i \in DOMAIN tags |-> Strip(tags[i])]
        IsComposition(n) == ~FrameworkTagPattern(n)
    IN [cache EXCEPT
          !.framework_tags = SortSeq(SelectSeq(names, FrameworkTagPattern), StrLess),
          !.composition_tags = SortSeq(SelectSeq(names, IsComposition), StrLess),
          !.all_tags = tags]

\* is_stale: nothing cached, or fetched more than _cache_ttl ago
IsStale(cache) ==
    \/ cache.all_tags = <<>>
    \/ (cache.time - cache.last_fetched) > CacheTtl

\* guild.get_channel(briefing_channel_id): no channel, a text channel, a forum
ChannelKinds == {"none", "text", "forum"}

\* the names of available_tags a forum can have, in the forum's order
TagNames ==
    {<<"F", "r", "a", "m", "e", "w", "o", "r", "k", " ", "3", ".", "0">>,
     <<"f", "r", "a", "m", "e", "w", "o", "r", "k", " ", " ", "2", ".", "1", "0">>,
     <<"I", "n", "f", "a", "n", "t", "r", "y">>,
     <<" ", "A", "r", "m", "o", "r", "e", "d", " ">>,
     <<"F", "r", "a", "m", "e", "w", "o", "r", "k", " ", "X">>}
AvailableTags ==
    {q \in UNION {[1..k -> TagNames] : k \in 0..MaxForumTags} :
        \A i, j \in DOMAIN q : i # j => q[i] # q[j]}

InitTags ==
    /\ polls = InitPollRows
    /\ events = [e \in EventIds |-> Unassigned]
    /\ messages = 1..(2 * MaxPolls)
    /\ now = 0
    /\ mon = IdleMon
    /\ cancel = IdleCancel
    /\ req = [r \in Requests |-> IdleReq]
    /\ outbox = {}
    /\ reply = NoReply
    /\ applied = [e \in EventIds |-> NoWrite]
    /\ call = [fn |-> "tags", framework_tags |-> <<>>, composition_tags |-> <<>>,
               all_tags |-> <<>>, last_fetched |-> 0, time |-> 2 * CacheTtl,
               op |-> "init"]

\* refresh_tags, from its call to its return
RefreshTagsOn(cache) ==
    {IF ch # "forum"
     THEN [cache EXCEPT !.op = "refresh_returned_early"]
     ELSE [CategorizeTags(cache, tags) EXCEPT !.last_fetched = cache.time,
                                              !.op = "refreshed"] :
        ch \in ChannelKinds, tags \in AvailableTags}

\* /configure: await forum_tag_service.refresh_tags(...)
RefreshTags ==
    /\ call.fn = "tags"
    /\ call' \in RefreshTagsOn(call)
    /\ UNCHANGED <<polls, events, messages, now, mon, cancel, req, outbox, reply,
                   applied>>

\* /missionpoll and its autocompletes: await forum_tag_service.ensure_cache(...)
EnsureCache ==
    /\ call.fn = "tags"
    /\ IF IsStale(call)
       THEN call' \in RefreshTagsOn(call)
       ELSE call' = [call EXCEPT !.op = "fresh"]
    /\ UNCHANGED <<polls, events, messages, now, mon, cancel, req, outbox, reply,
                   applied>>

\* time.time() moves on
TagTime ==
    /\ call.fn = "tags"
    /\ call.time < 2 * CacheTtl + MaxTagClock * TagClockStep
    /\ call' = [call EXCEPT !.time = call.time + TagClockStep, !.op = "time"]
    /\ UNCHANGED <<polls, events, messages, now, mon, cancel, req, outbox, reply,
                   applied>>

NextTags == RefreshTags \/ EnsureCache \/ TagTime
SpecTags == InitTags /\ [][NextTags]_vars

\* ================================================================ claims
ActivePollOn(e) ==
    \E p \in PollIds : polls[p].status = "active" /\ polls[p].target_event_id = e

\* the step is one of the monitor's
MonitorStep == mon' # mon
\* the step is the one that ends a tick (the loop is exhausted, or an
\* exception reached the except clause of _poll_monitor_loop)
TickEnds == mon.pc # "idle" /\ mon'.pc = "idle"

\* C1: in every reachable state at most one poll with status 'active' targets
\* any given event, also when two /missionpoll requests for one event are both
\* past the existence check
C1_OneActivePollPerEvent ==
    \A p, q \in PollIds :
        ( /\ polls[p].status = "active"
          /\ polls[q].status = "active"
          /\ polls[p].target_event_id = polls[q].target_event_id ) => p = q

\* two requests for the same event are both between get_active_poll_for_event
\* and the rest of the command
C1_Witness ==
    \E r1, r2 \in Requests :
        /\ r1 # r2
        /\ req[r1].pc = "discover"
        /\ req[r2].pc = "discover"
        /\ req[r1].event = req[r2].event

\* C2: a poll whose status is 'completed' or 'failed' keeps that status in
\* every later step of every operation
C2_TerminalIsAbsorbing ==
    [][\A p \in PollIds :
          polls[p].status \in Terminal => polls'[p].status = polls[p].status]_vars

\* C3: in every reachable state a poll has a winning_thread_id if and only if
\* its status is 'completed'
C3_WinnerIffCompleted ==
    \A p \in PollIds :
        (polls[p].winning_thread_id # NULL) <=> (polls[p].status = "completed")

\* C4: no step of a resolution changes an event whose name is not empty, so an
\* event assigned by /schedule keeps the name and creator /schedule wrote
C4_ResolutionKeepsAssignedEvent ==
    [][MonitorStep =>
          \A e \in EventIds : events[e].name # "" => events'[e] = events[e]]_vars

\* C5: whenever neither the monitor nor a cancel is under way, an event that
\* carries the name a poll's resolution wrote belongs to a poll that is
\* 'completed' with exactly that candidate as its winner
C5_SingleCommitPoint ==
    (mon.pc = "idle" /\ cancel.pc = "idle") =>
        \A e \in EventIds :
            applied[e].poll # NULL =>
                /\ polls[applied[e].poll].status = "completed"
                /\ polls[applied[e].poll].winning_thread_id = applied[e].thread

\* C6: when a tick ends, and it was not a database error that ended it, every
\* poll that was active and due when the tick read its list is 'completed' or
\* 'failed'
C6_DuePollsTerminalAfterTick ==
    [][(TickEnds /\ reply'.kind # "db_error") =>
          \A p \in mon.due : polls'[p].status \in Terminal]_vars

\* C7: a tick does not end while a due poll of its list is still waiting to be
\* processed, whatever happened to the polls before it
C7_FailureDoesNotEndTick ==
    [][TickEnds =>
          \A i \in DOMAIN mon.queue :
              mon.tickNow < polls[mon.queue[i]].poll_end_time]_vars

\* C8: a monitor step taken for a poll that is already 'completed' or 'failed'
\* changes no poll row, no event and no message, and sends no notification
C8_TerminalPollIsNoOp ==
    [][(MonitorStep /\ mon.cur # NULL /\ polls[mon.cur].status \in Terminal) =>
          /\ polls' = polls
          /\ events' = events
          /\ messages' = messages
          /\ outbox' = {}]_vars

\* C9: a /missionpoll request that reaches the existence check while its event
\* has an active poll ends there with the "already has an active poll" reply,
\* and the polls, the events and the messages are unchanged
C9_SecondPollRejected ==
    [][\A r \in Requests :
          ( /\ req[r].pc = "check"
            /\ req'[r] # req[r]
            /\ ActivePollOn(req[r].event) ) =>
              /\ req'[r] = IdleReq
              /\ reply'.kind = "rejected_active"
              /\ polls' = polls
              /\ events' = events
              /\ messages' = messages]_vars

\* a request has just been turned down because its event has an active poll
C9_Witness ==
    /\ reply.kind = "rejected_active"
    /\ \E e \in EventIds : ActivePollOn(e)

\* C10: a request that passed every precondition, has at least 2 remaining
\* candidates and whose vote message was sent ends by inserting one 'active'
\* poll row for its event with poll_end_time = now + duration
C10_ValidRequestInsertsPoll ==
    [][\A r \in Requests :
          ( /\ req[r].pc = "discover"
            /\ req'[r] # req[r]
            /\ reply'.ncand >= 2
            /\ reply'.kind \notin {"failed_send", "failed_persist"} ) =>
              /\ reply'.kind = "created"
              /\ Len(polls') = Len(polls) + 1
              /\ polls'[Len(polls')].status = "active"
              /\ polls'[Len(polls')].target_event_id = req[r].event
              /\ polls'[Len(polls')].poll_end_time = now + req[r].duration]_vars

\* the tally has an entry that is not zero
SomeVotes(v) == \E i \in DOMAIN v : v[i] # 0
\* index i holds the largest tally of v
HoldsMax(v, i) == i \in DOMAIN v /\ \A j \in DOMAIN v : v[j] <= v[i]
Tally3772 == [i \in 0..3 |-> <<3, 7, 7, 2>>[i + 1]]

\* C13: when some tally is not zero, the index the draw returns holds the
\* maximum tally, every index holding the maximum can be returned, and for
\* tallies [3,7,7,2] the index is 1 or 2
C13_WinnerHasMaxTally ==
    (call.fn = "draw" /\ SomeVotes(call.vote_counts)) =>
        /\ call.done => HoldsMax(call.vote_counts, call.winner_idx)
        /\ \A i \in DOMAIN call.vote_counts :
               HoldsMax(call.vote_counts, i) =>
                   i \in WinnerIndices(call.vote_counts, call.n)
        /\ (call.done /\ call.vote_counts = Tally3772) => call.winner_idx \in {1, 2}

\* the draw on [3,7,7,2] returned the second of the tied indices
C13_Witness ==
    /\ call.fn = "draw"
    /\ call.done
    /\ call.vote_counts = Tally3772
    /\ call.winner_idx = 2

\* C14: when every tally is zero, or the vote reports no answers, the draw
\* returns an index in 0..n-1, every such index can be returned, and the
\* resolution goes on with that winner
C14_ZeroVotesStillPicks ==
    (call.fn = "draw" /\ ~SomeVotes(call.vote_counts)) =>
        /\ call.done => /\ call.winner_idx \in 0..(call.n - 1)
                        /\ call.outcome = "winner"
        /\ \A i \in 0..(call.n - 1) : i \in WinnerIndices(call.vote_counts, call.n)

\* a vote without answers drew the last index of the list
C14_Witness ==
    /\ call.fn = "draw"
    /\ call.done
    /\ DOMAIN call.vote_counts = {}
    /\ call.winner_idx = call.n - 1
    /\ call.outcome = "winner"

\* thread w won a completed poll of the guild whose event lies d days back
WonFor(rows, w, d) ==
    \E p \in DOMAIN rows :
        /\ rows[p].guild_id = Guild
        /\ rows[p].status = "completed"
        /\ rows[p].winning_thread_id = w
        /\ EventDaysAgo(rows[p].target_event_id) = d

\* C17: get_excluded_thread_ids returns exactly the winners of the guild's
\* completed polls whose event date is less than 14 days back: 10 days back
\* and 7 days ahead are excluded, 20 days and exactly 14 days back are not
C17_ExcludedWindow ==
    (call.fn = "excluded" /\ call.done) =>
        \A w \in ThreadIds :
            w \in call.result <=>
                (WonFor(call.rows, w, 10) \/ WonFor(call.rows, w, -7))

\* thread 1 won for the event 10 days back and is excluded; thread 2 won for
\* the event exactly 14 days back and is not
C17_Witness ==
    /\ call.fn = "excluded"
    /\ call.done
    /\ WonFor(call.rows, 1, 10)
    /\ WonFor(call.rows, 2, 14)
    /\ call.result = {1}

\* C15: a cancel never confirms on a poll that a resolution has completed
\* (the poll would end 'failed' with its event assigned), and a poll that is
\* 'failed' is never completed by a resolution
C15_CancelExcludesResolution ==
    [][\A p \in PollIds :
          /\ (cancel.pc = "mark" /\ cancel.poll = p /\ reply'.kind = "cancelled")
                => polls[p].status # "completed"
          /\ polls[p].status = "failed" => polls'[p].status # "completed"]_vars

\* C16: a /cancelpoll that confirms leaves its poll 'failed', the poll's vote
\* message and links message gone and the events as they were; a /cancelpoll
\* that finds no active poll changes nothing
C16_CancelFailsAndCleans ==
    [][/\ (cancel.pc = "mark" /\ reply'.kind = "cancelled") =>
            /\ polls'[cancel.poll].status = "failed"
            /\ polls[cancel.poll].poll_message_id \notin messages'
            /\ polls[cancel.poll].links_message_id \notin messages'
            /\ events' = events
       /\ reply'.kind = "cancel_notfound" =>
            /\ polls' = polls
            /\ events' = events
            /\ messages' = messages]_vars

Rejections ==
    {"rejected_duration", "rejected_missing", "rejected_assigned",
     "rejected_no_channel"}

\* C19: a request passes validation only with a duration in
\* {12,24,36,48,60,72} and an event that exists and is unassigned, and a
\* step that ends a request with a validation rejection (duration, event
\* missing, event assigned, no briefing channel) changes no poll row, no
\* event and no message and sends no notification
C19_RejectionMutatesNothing ==
    [][/\ \A r \in Requests :
            (req[r].pc = "idle" /\ req'[r].pc = "check") =>
                /\ req'[r].duration \in {12, 24, 36, 48, 60, 72}
                /\ req'[r].event \in DOMAIN events
                /\ events[req'[r].event].name = ""
       /\ reply'.kind \in Rejections =>
            /\ polls' = polls
            /\ events' = events
            /\ messages' = messages
            /\ outbox' = {}
            /\ \A r \in Requests : req'[r].pc \in {"idle", req[r].pc}]_vars

\* a request for an unassigned event without an active poll was turned down
\* for the missing briefing channel, while another event is assigned
C19_Witness ==
    /\ reply.kind = "rejected_no_channel"
    /\ \E e \in EventIds : events[e].name # ""

\* the elements of a sequence
Elems(q) == {q[i] : i \in DOMAIN q}

\* C20: a request that reached candidate discovery with a briefing channel ends
\* without a poll when 0 or 1 candidates remain; with more remaining than
\* requested it selects exactly the requested count, selected and excluded
\* being disjoint and together the remaining set; otherwise every remaining
\* candidate becomes an option
C20_SelectionSizePolicy ==
    [][\A r \in Requests :
          ( /\ req[r].pc = "discover"
            /\ req'[r] # req[r]
            /\ reply'.kind # "rejected_no_channel" ) =>
              /\ reply'.ncand < 2 =>
                    /\ reply'.kind # "created"
                    /\ polls' = polls
              /\ reply'.ncand > reply'.options =>
                    /\ Len(reply'.selected) = reply'.options
                    /\ Elems(reply'.selected) \cap Elems(reply'.excluded) = {}
                    /\ Elems(reply'.selected) \cup Elems(reply'.excluded)
                          = Elems(reply'.remaining)
              /\ (reply'.ncand >= 2 /\ reply'.ncand <= reply'.options) =>
                    /\ reply'.answers = reply'.remaining
                    /\ reply'.excluded = <<>>]_vars

\* C18: a request whose vote message could not be sent inserts no poll row
C18_SendFailureInsertsNothing ==
    [][reply'.kind = "failed_send" => polls' = polls]_vars

\* the case of C18: a request ended on the failed send of its vote message
C18_SendFailed == reply.kind = "failed_send"

\* the candidate each option of a poll's vote message was built from: the
\* answers of the message come from the thread_data the row's list came from
VoteOptions(row) == PollAnswerThreads(ThreadData(row.mission_thread_ids))

C21_AnswerFitsBudget ==
    (call.fn = "format" /\ call.done) => Len(call.answer) <= 55

\* the hard cut acted: a truncated answer of exactly 55 characters whose tag
\* suffix did not fit
C21_Witness ==
    /\ call.fn = "format" /\ call.done
    /\ call.attempt = 4
    /\ Len(call.answer) = 55
    /\ call.answer[55] # "]"

C23_NotificationFailureSwallowed ==
    [][MonitorStep => reply'.kind # "send_error"]_vars

\* C24: the notifications of one monitor step never hold both the DM to the
\* creator and the message to the log channel
C24_LogChannelOnlyAsFallback ==
    [][MonitorStep => ~({"dm", "log"} \subseteq outbox')]_vars

\* the step found one of the things it reads missing or unusable: the guild,
\* the channel, the vote message or its vote; the winner index or the winning
\* thread; the target event
ValidationFails ==
    /\ MonitorStep
    /\ \/ mon.pc = "fetch" /\ mon'.pc # "pick"
       \/ mon.pc = "pick" /\ mon'.pc # "event"
       \/ /\ mon.pc = "event"
          /\ polls[mon.cur].target_event_id \notin DOMAIN events

\* C25: a monitor step that finds a read-side validation failure, and meets no
\* database error, leaves its poll 'failed' with no winner, and changes no
\* event and no message
C25_ValidationFailureMarksFailed ==
    [][(ValidationFails /\ reply'.kind # "db_error") =>
          /\ polls'[mon.cur].status = "failed"
          /\ polls'[mon.cur].winning_thread_id = NULL
          /\ events' = events
          /\ messages' = messages]_vars

\* C26: a write step whose update_event reports no row updated, and whose
\* mark_failed meets no database error, leaves the poll 'failed' with no
\* winner and keeps the messages
C26_WriteFailureMarksFailed ==
    [][(mon.pc = "write" /\ MonitorStep /\ mon'.pc # "complete"
          /\ reply'.kind # "db_error") =>
            /\ polls'[mon.cur].status = "failed"
            /\ polls'[mon.cur].winning_thread_id = NULL
            /\ messages' = messages]_vars

\* the case of C26: the write is about to run for an event whose row is gone
C26_WriteWillFail ==
    /\ mon.pc = "write"
    /\ ~UpdateEventResult(events, polls[mon.cur].target_event_id)

\* C27: a step of a tick changes nothing of an active poll whose end time is
\* later than the tick's now (its row, its event, its two messages), and every
\* poll row a monitor step changes had poll_end_time <= now of that tick
C27_NotDueUntouched ==
    [][(MonitorStep /\ mon.pc # "idle") =>
          \A p \in PollIds :
            /\ (polls[p].status = "active" /\ mon.tickNow < polls[p].poll_end_time) =>
                  /\ polls'[p] = polls[p]
                  /\ \A e \in DOMAIN events :
                        polls[p].target_event_id = e => events'[e] = events[e]
                  /\ polls[p].poll_message_id \in messages =>
                        polls[p].poll_message_id \in messages'
                  /\ polls[p].links_message_id \in messages =>
                        polls[p].links_message_id \in messages'
            /\ polls'[p] # polls[p] => polls[p].poll_end_time <= mon.tickNow]_vars

\* a tick passed over a poll that was not due and completed one that was
C27_Witness ==
    /\ mon.pc = "loop"
    /\ mon.queue = <<>>
    /\ \E p, q \in PollIds :
          /\ polls[p].status = "active" /\ mon.tickNow < polls[p].poll_end_time
          /\ polls[q].status = "completed" /\ q \in mon.due

\* the two lists are the sorted framework names and the sorted other names of
\* the one list all_tags
CacheConsistent(cache) ==
    LET Names(q) == {q[i] : i \in DOMAIN q}
        all == {Strip(cache.all_tags[i]) : i \in DOMAIN cache.all_tags}
    IN /\ Names(cache.framework_tags) = {n \in all : FrameworkTagPattern(n)}
       /\ Names(cache.composition_tags) = {n \in all : ~FrameworkTagPattern(n)}
       /\ Len(cache.framework_tags) + Len(cache.composition_tags)
             = Len(cache.all_tags)
       /\ \A q \in {cache.framework_tags, cache.composition_tags} :
             \A i, j \in DOMAIN q : i < j => StrLess(q[i], q[j])

\* C28: in every state a caller can read, the two lists belong to one and the
\* same tag list, and a refresh that finds no forum channel returns with both
\* lists and the last-refresh time as they were
C28_RefreshIsAtomic ==
    [][/\ CacheConsistent(call')
       /\ call'.op = "refresh_returned_early" =>
             /\ call'.framework_tags = call.framework_tags
             /\ call'.composition_tags = call.composition_tags
             /\ call'.all_tags = call.all_tags
             /\ call'.last_fetched = call.last_fetched]_vars

\* a cache holding both kinds of tags was refreshed to another tag list, and a
\* later refresh found no forum
C28_Witness ==
    /\ call.fn = "tags"
    /\ call.op = "refresh_returned_early"
    /\ call.framework_tags # <<>>
    /\ call.composition_tags # <<>>
    /\ call.last_fetched > 2 * CacheTtl

\* C29: every vote message and every links message in the channel is
\* referenced by a poll row
C29_VoteMessageTracked ==
    \A m \in messages :
        \E p \in PollIds :
            m \in {polls[p].poll_message_id, polls[p].links_message_id}

\* the case of C29: a creation request has sent its vote message
C29_VoteMessageSent == reply.kind \in {"created", "failed_persist"}

\* C30: the draw goes on to a winner only with an index inside the stored
\* list, and the winner is the id stored at that index; an index past the end
\* of the list (the live vote has more answers than stored ids) marks the poll
\* failed with no winner
C30_WinnerComesFromOwnList ==
    (call.fn = "draw" /\ call.done) =>
        /\ call.outcome = "winner" =>
              /\ call.winner_idx \in 0..(call.n - 1)
              /\ call.winning_thread_id = call.thread_ids[call.winner_idx + 1]
        /\ call.winner_idx >= call.n =>
              /\ call.outcome = "failed"
              /\ call.winning_thread_id = NULL

\* the live vote had more answers than stored ids and the extra one won
C30_Witness ==
    /\ call.fn = "draw" /\ call.done
    /\ call.winner_idx = call.n
    /\ SomeVotes(call.vote_counts)
    /\ call.outcome = "failed"

\* the same on the poll table: a 'completed' poll holds one of its own
\* candidates as winning_thread_id
CompletedWinnerIsCandidate ==
    \A p \in PollIds :
        polls[p].status = "completed" =>
            polls[p].winning_thread_id \in Elems(polls[p].mission_thread_ids)

====
